---- MODULE Spec2Model ----
(***************************************************************************)
(* Loan lifecycle of the library API (FastAPI + SQLAlchemy over MySQL).    *)
(*                                                                         *)
(* The state is the content of the relational store (tables user, book,    *)
(* book_copy, borrow) and the wall clock read by datetime.now().  A        *)
(* handler is a function of the store, the clock and the request to the    *)
(* HTTP response and the store it commits (the operators Exec...); a       *)
(* raised HTTPException commits nothing.  A handler is one action when     *)
(* requests are served one after the other (Spec, SpecUsers and the        *)
(* specifications of the borrow endpoints).  SpecConc and those after it   *)
(* split the borrow handlers into their read phase and their commit, so    *)
(* that requests of two worker threads, and the clock, interleave.         *)
(*                                                                         *)
(* database.py line 24 reads `der get_db():`, which Python does not parse; *)
(* the model takes it as `def get_db():`, the dependency every router      *)
(* imports: one Session per request, closed (rolled back) at its end.      *)
(***************************************************************************)
EXTENDS Integers, Sequences, FiniteSets, TLC

\* ------------------------------------------------------------------ bounds
MaxUsers  == 2      \* rows ever inserted into table user
MaxBooks  == 1      \* rows ever inserted into table book
MaxTime   == 2      \* the clock runs over 0..MaxTime
\* Spec: the whole API
MaxCopies == 1      \* rows ever inserted into table book_copy
MaxLoans  == 2      \* rows ever inserted into table borrow
\* SpecLoans: the borrow endpoints over a catalogue of available copies
LoanCopies == 2
LoanRows   == 3
\* SpecLimit: the loan limit, the clock standing still
LimitCopies == 4
LimitRows   == 4
\* SpecPolicy: every check of criar_emprestimo at once: loans up to the limit
\* and a clock that passes their due dates
PolicyCopies == 4
PolicyRows   == 3

\* SpecConc: requests of the borrow endpoints served by concurrent workers
NWorkers   == 2
ConcCopies == 1
ConcRows   == 2
\* SpecRace: loan requests of concurrent workers over a larger catalogue
RaceCopies  == 4
RaceRows    == 4
RaceSeqRows == 2    \* the loans made before the workers start

\* default of the parameter max_emprestimos of verificar_limite_emprestimos
max_emprestimos == 3

UserIds == 1..MaxUsers
BookIds == 1..MaxBooks

\* SQL NULL in a nullable DateTime column / an Optional field left out
NULL  == -1

VARIABLES
    users,        \* table user (+ funcionario, cliente): id -> [user_type, email]
    books,        \* table book: the set of ids
    copies,       \* table book_copy: id -> [book_id, copy_number, is_available]
    loans,        \* table borrow: id -> record; ids are 1..Len(loans)
    nextUserId,   \* AUTO_INCREMENT counters (ids are never reused)
    nextBookId,
    nextCopyId,
    now,          \* datetime.now()
    sess          \* SpecConc: per worker thread, the request it is serving

dbvars == <<users, books, copies, loans, nextUserId, nextBookId, nextCopyId>>
vars   == <<users, books, copies, loans, nextUserId, nextBookId, nextCopyId, now, sess>>

\* ---------------------------------------------------------------- responses
\* every HTTPException raised with HTTP_400_BAD_REQUEST
StatusOf_sempre_400(detail) ==
    IF detail = "integrity_error" THEN 500 ELSE 400

\* the HTTP status FastAPI answers for the detail of a raised exception
StatusOf(detail) ==
    IF detail \in {"copy_not_found", "borrower_not_found", "lender_not_found",
                   "loan_not_found", "book_not_found", "user_not_found"}
        THEN 404
    ELSE IF detail = "integrity_error" THEN 500
    ELSE 400

\* what a handler answers and leaves in the tables book_copy and borrow
Result(status, detail, cs, ls) ==
    [status |-> status, detail |-> detail, copies |-> cs, loans |-> ls]

\* raise HTTPException: the session is closed without a commit
Raise(detail, cs, ls) == Result(StatusOf(detail), detail, cs, ls)

\* a function with one more / one less row
Put(f, k, v)  == [i \in (DOMAIN f) \cup {k} |-> IF i = k THEN v ELSE f[i]]

Drop(f, k)    == [i \in (DOMAIN f) \ {k} |-> f[i]]

\* ---------------------------------------------------------------- helpers of borrow.py
\* the ids of the open loans of a borrower
verificar_emprestimos_ativos(ls, borrower_id) ==
    {i \in DOMAIN ls : ls[i].borrower_id = borrower_id /\ ls[i].return_date = NULL}

\* verificar_atrasos filtering the returned loans instead of the open ones
verificar_atrasos_devolvidos(ls, borrower_id, hoje) ==
    {i \in DOMAIN ls : /\ ls[i].borrower_id = borrower_id
                       /\ ls[i].return_date # NULL
                       /\ ls[i].due_date < hoje}

\* verificar_atrasos with one day of grace after the due date
verificar_atrasos_tolerancia(ls, borrower_id, hoje) ==
    {i \in DOMAIN ls : /\ ls[i].borrower_id = borrower_id
                       /\ ls[i].return_date = NULL
                       /\ ls[i].due_date < hoje - 1}

\* the ids of the open loans of a borrower that are past their due date
verificar_atrasos(ls, borrower_id, hoje) ==
    {i \in DOMAIN ls : /\ ls[i].borrower_id = borrower_id
                       /\ ls[i].return_date = NULL
                       /\ ls[i].due_date < hoje}

\* verificar_limite_emprestimos letting a borrower at the limit through
verificar_limite_emprestimos_inclusivo(ls, borrower_id) ==
    Cardinality(verificar_emprestimos_ativos(ls, borrower_id)) <= max_emprestimos

verificar_limite_emprestimos(ls, borrower_id) ==
    Cardinality(verificar_emprestimos_ativos(ls, borrower_id)) < max_emprestimos

\* verificar_funcionario querying User instead of Funcionario
verificar_funcionario_qualquer(us, user_id) == user_id \in DOMAIN us

verificar_funcionario(us, user_id) ==
    user_id \in DOMAIN us /\ us[user_id].user_type = "funcionario"

\* verificar_disponibilidade_copia without the test of is_available
verificar_disponibilidade_copia_sem_flag(cs, book_copy_id) ==
    IF book_copy_id \notin DOMAIN cs THEN "copy_not_found" ELSE "ok"

\* "ok", or the detail of the HTTPException it raises
verificar_disponibilidade_copia(cs, book_copy_id) ==
    IF book_copy_id \notin DOMAIN cs THEN "copy_not_found"
    ELSE IF ~cs[book_copy_id].is_available THEN "copy_unavailable"
    ELSE "ok"

\* ---------------------------------------------------------------- criar_emprestimo
\* criar_emprestimo without the test of verificar_atrasos
validar_emprestimo_sem_atrasos(us, cs, ls, hoje, req) ==
    IF req.due_date <= hoje THEN "due_not_future"
    ELSE IF verificar_disponibilidade_copia(cs, req.book_copy_id) # "ok"
        THEN verificar_disponibilidade_copia(cs, req.book_copy_id)
    ELSE IF req.borrower_id \notin DOMAIN us THEN "borrower_not_found"
    ELSE IF req.lender_id \notin DOMAIN us THEN "lender_not_found"
    ELSE IF ~verificar_funcionario(us, req.lender_id) THEN "lender_not_employee"
    ELSE IF ~verificar_limite_emprestimos(ls, req.borrower_id) THEN "limit_reached"
    ELSE "ok"

\* criar_emprestimo calling verificar_atrasos before verificar_limite_emprestimos
validar_emprestimo_atrasos_primeiro(us, cs, ls, hoje, req) ==
    IF req.due_date <= hoje THEN "due_not_future"
    ELSE IF verificar_disponibilidade_copia(cs, req.book_copy_id) # "ok"
        THEN verificar_disponibilidade_copia(cs, req.book_copy_id)
    ELSE IF req.borrower_id \notin DOMAIN us THEN "borrower_not_found"
    ELSE IF req.lender_id \notin DOMAIN us THEN "lender_not_found"
    ELSE IF ~verificar_funcionario(us, req.lender_id) THEN "lender_not_employee"
    ELSE IF verificar_atrasos(ls, req.borrower_id, hoje) # {} THEN "borrower_overdue"
    ELSE IF ~verificar_limite_emprestimos(ls, req.borrower_id) THEN "limit_reached"
    ELSE "ok"

\* the checks of criar_emprestimo in their order: "ok", or the detail of the
\* first HTTPException raised
validar_emprestimo(us, cs, ls, hoje, req) ==
    IF req.due_date <= hoje THEN "due_not_future"
    ELSE IF verificar_disponibilidade_copia(cs, req.book_copy_id) # "ok"
        THEN verificar_disponibilidade_copia(cs, req.book_copy_id)
    ELSE IF req.borrower_id \notin DOMAIN us THEN "borrower_not_found"
    ELSE IF req.lender_id \notin DOMAIN us THEN "lender_not_found"
    ELSE IF ~verificar_funcionario(us, req.lender_id) THEN "lender_not_employee"
    ELSE IF ~verificar_limite_emprestimos(ls, req.borrower_id) THEN "limit_reached"
    ELSE IF verificar_atrasos(ls, req.borrower_id, hoje) # {} THEN "borrower_overdue"
    ELSE "ok"

\* the Borrow row with borrower_id and lender_id taken from each other's field
NovoEmprestimo_trocado(req, hoje) ==
    [book_copy_id |-> req.book_copy_id,
     borrower_id  |-> req.lender_id,
     lender_id    |-> req.borrower_id,
     borrow_date  |-> hoje,
     due_date     |-> req.due_date,
     return_date  |-> NULL]

\* the row db.add(db_emprestimo) inserts; borrow_date is the server default now()
NovoEmprestimo(req, hoje) ==
    [book_copy_id |-> req.book_copy_id,
     borrower_id  |-> req.borrower_id,
     lender_id    |-> req.lender_id,
     borrow_date  |-> hoje,
     due_date     |-> req.due_date,
     return_date  |-> NULL]

\* copia.is_available = value, flushed by db.commit()
SetAvailable(cs, copy_id, value) ==
    [cs EXCEPT ![copy_id].is_available = value]

\* criar_emprestimo without `copia.is_available = False`
FlushCriarEmprestimo_sem_copia(us, cs, ls, hoje, req) ==
    IF \/ req.book_copy_id \notin DOMAIN cs
       \/ req.borrower_id \notin DOMAIN us
       \/ req.lender_id \notin DOMAIN us
    THEN Raise("integrity_error", cs, ls)
    ELSE Result(201, "ok", cs, Append(ls, NovoEmprestimo(req, hoje)))

\* db.add(db_emprestimo); db.commit(): one transaction that updates the copy
\* row and inserts the borrow row in the store as it is at the commit.  The
\* foreign keys of borrow and the row count of the UPDATE make it fail, and
\* roll back, when a referenced row is gone by then.
FlushCriarEmprestimo(us, cs, ls, hoje, req) ==
    IF \/ req.book_copy_id \notin DOMAIN cs
       \/ req.borrower_id \notin DOMAIN us
       \/ req.lender_id \notin DOMAIN us
    THEN Raise("integrity_error", cs, ls)
    ELSE Result(201, "ok",
                SetAvailable(cs, req.book_copy_id, FALSE),
                Append(ls, NovoEmprestimo(req, hoje)))

\* the whole handler: the response and the tables after it
ExecCriarEmprestimo(us, cs, ls, hoje, req) ==
    LET d == validar_emprestimo(us, cs, ls, hoje, req) IN
    IF d # "ok" THEN Raise(d, cs, ls)
    ELSE FlushCriarEmprestimo(us, cs, ls, hoje, req)

\* ---------------------------------------------------------------- marcar_devolucao
\* marcar_devolucao without the test of return_date
validar_devolucao_sem_estado(ls, borrow_id) ==
    IF borrow_id \notin DOMAIN ls THEN "loan_not_found" ELSE "ok"

\* "ok", or the detail of the HTTPException marcar_devolucao raises
validar_devolucao(ls, borrow_id) ==
    IF borrow_id \notin DOMAIN ls THEN "loan_not_found"
    ELSE IF ls[borrow_id].return_date # NULL THEN "already_returned"
    ELSE "ok"

\* marcar_devolucao ignoring the return_date of the request
data_devolucao_agora(return_date, hoje) == hoje

\* devolucao.return_date if devolucao.return_date else datetime.now()
data_devolucao(return_date, hoje) ==
    IF return_date # NULL THEN return_date ELSE hoje

SetReturnDate(ls, borrow_id, value) ==
    [ls EXCEPT ![borrow_id].return_date = value]

\* marcar_devolucao without `copia.is_available = True`
EscreveCopia_nunca(copy_found, loaded_flag) == FALSE

\* `if copia: copia.is_available = True` marks the copy row for an UPDATE only
\* if the row was found and the flag it was loaded with is not True already
EscreveCopia(copy_found, loaded_flag) == copy_found /\ ~loaded_flag

\* marcar_devolucao refusing the return of a copy that is flagged available
FlushMarcarDevolucao_so_emprestada(cs, ls, borrow_id, data, copy_found, loaded_flag) ==
    LET copy_id == ls[borrow_id].book_copy_id IN
    IF copy_found /\ loaded_flag THEN Raise("copy_not_on_loan", cs, ls)
    ELSE IF EscreveCopia(copy_found, loaded_flag) /\ copy_id \notin DOMAIN cs
    THEN Raise("integrity_error", cs, ls)
    ELSE Result(200, "ok",
                IF EscreveCopia(copy_found, loaded_flag)
                    THEN SetAvailable(cs, copy_id, TRUE) ELSE cs,
                SetReturnDate(ls, borrow_id, data))

\* db.commit() of marcar_devolucao: one transaction that updates the borrow row
\* and, if marked, the copy row, in the store as it is at the commit
FlushMarcarDevolucao(cs, ls, borrow_id, data, copy_found, loaded_flag) ==
    LET copy_id == ls[borrow_id].book_copy_id IN
    IF EscreveCopia(copy_found, loaded_flag) /\ copy_id \notin DOMAIN cs
    THEN Raise("integrity_error", cs, ls)
    ELSE Result(200, "ok",
                IF EscreveCopia(copy_found, loaded_flag)
                    THEN SetAvailable(cs, copy_id, TRUE) ELSE cs,
                SetReturnDate(ls, borrow_id, data))

\* the flag of a copy as a query loads it (FALSE when there is no such row)
LoadedFlag(cs, copy_id) == copy_id \in DOMAIN cs /\ cs[copy_id].is_available

ExecMarcarDevolucao(cs, ls, hoje, borrow_id, return_date) ==
    LET d == validar_devolucao(ls, borrow_id) IN
    IF d # "ok" THEN Raise(d, cs, ls)
    ELSE FlushMarcarDevolucao(cs, ls, borrow_id, data_devolucao(return_date, hoje),
                              ls[borrow_id].book_copy_id \in DOMAIN cs,
                              LoadedFlag(cs, ls[borrow_id].book_copy_id))

\* ---------------------------------------------------------------- atualizar_emprestimo
\* atualizar_emprestimo accepting a due date equal to now
validar_atualizacao_menor(ls, hoje, borrow_id, due_date) ==
    IF borrow_id \notin DOMAIN ls THEN "loan_not_found"
    ELSE IF ls[borrow_id].return_date # NULL THEN "already_returned"
    ELSE IF due_date # NULL /\ due_date < hoje THEN "due_not_future"
    ELSE "ok"

\* due_date is NULL when the body carries no due_date
validar_atualizacao(ls, hoje, borrow_id, due_date) ==
    IF borrow_id \notin DOMAIN ls THEN "loan_not_found"
    ELSE IF ls[borrow_id].return_date # NULL THEN "already_returned"
    ELSE IF due_date # NULL /\ due_date <= hoje THEN "due_not_future"
    ELSE "ok"

SetDueDate(ls, borrow_id, due_date) ==
    IF due_date # NULL THEN [ls EXCEPT ![borrow_id].due_date = due_date] ELSE ls

\* atualizar_emprestimo committing the new due date before it tests it
ExecAtualizarEmprestimo_grava_antes(cs, ls, hoje, borrow_id, due_date) ==
    LET d == validar_atualizacao(ls, hoje, borrow_id, due_date) IN
    IF d = "due_not_future" THEN Raise(d, cs, SetDueDate(ls, borrow_id, due_date))
    ELSE IF d # "ok" THEN Raise(d, cs, ls)
    ELSE Result(200, "ok", cs, SetDueDate(ls, borrow_id, due_date))

ExecAtualizarEmprestimo(cs, ls, hoje, borrow_id, due_date) ==
    LET d == validar_atualizacao(ls, hoje, borrow_id, due_date) IN
    IF d # "ok" THEN Raise(d, cs, ls)
    ELSE Result(200, "ok", cs, SetDueDate(ls, borrow_id, due_date))

\* ---------------------------------------------------------------- overdue listings
\* the filter of both overdue endpoints, with <= in place of <
EmprestimosAtraso_ate_hoje(ls, hoje) ==
    LET Atrasado(i) == ls[i].return_date = NULL /\ ls[i].due_date <= hoje IN
    SelectSeq([i \in 1..Len(ls) |-> i], Atrasado)

\* db.query(Borrow).filter(and_(Borrow.return_date.is_(None),
\* Borrow.due_date < hoje)): the ids of the rows selected, in table order
EmprestimosAtraso(ls, hoje) ==
    LET Atrasado(i) == ls[i].return_date = NULL /\ ls[i].due_date < hoje IN
    SelectSeq([i \in 1..Len(ls) |-> i], Atrasado)

\* listar_emprestimos_atraso: one BorrowDetailResponse per selected loan, built
\* from the loan and the rows it references; reading an attribute of a row
\* that .first() did not find (None) raises, and the request is answered 500
listar_emprestimos_atraso(bs, cs, us, ls, hoje) ==
    LET ids == EmprestimosAtraso(ls, hoje) IN
    IF \E k \in 1..Len(ids) :
          \/ ls[ids[k]].book_copy_id \notin DOMAIN cs
          \/ cs[ls[ids[k]].book_copy_id].book_id \notin bs
          \/ ls[ids[k]].borrower_id \notin DOMAIN us
          \/ ls[ids[k]].lender_id \notin DOMAIN us
    THEN [status |-> 500, body |-> << >>]
    ELSE [status |-> 200,
          body   |-> [k \in 1..Len(ids) |->
                        [id           |-> ids[k],
                         book_copy_id |-> ls[ids[k]].book_copy_id,
                         borrower_id  |-> ls[ids[k]].borrower_id,
                         lender_id    |-> ls[ids[k]].lender_id,
                         borrow_date  |-> ls[ids[k]].borrow_date,
                         due_date     |-> ls[ids[k]].due_date,
                         return_date  |-> ls[ids[k]].return_date,
                         copy_number  |-> cs[ls[ids[k]].book_copy_id].copy_number]]]

\* estatisticas_atraso: the count of the selected loans, and one entry per
\* selected loan joined with the row of its borrower (an inner join: a loan
\* whose borrower is not in table user yields no entry)
estatisticas_atraso(us, ls, hoje) ==
    LET ids == EmprestimosAtraso(ls, hoje)
        ComUsuario(i) == ls[i].borrower_id \in DOMAIN us
        joined == SelectSeq(ids, ComUsuario) IN
    [status |-> 200,
     total_emprestimos_atraso |-> Len(ids),
     usuarios_com_atraso |-> [k \in 1..Len(joined) |-> [user_id |-> ls[joined[k]].borrower_id]]]

\* ---------------------------------------------------------------- book.py: copies
validar_copia(bs, cs, req) ==
    IF req.book_id \notin bs THEN "book_not_found"
    ELSE IF \E i \in DOMAIN cs : /\ cs[i].book_id = req.book_id
                                 /\ cs[i].copy_number = req.copy_number
        THEN "copy_number_taken"
    ELSE "ok"

\* db.add(BookCopy(...)): the new row takes the next AUTO_INCREMENT id
ExecCriarCopia(bs, cs, ls, next_id, req) ==
    LET d == validar_copia(bs, cs, req) IN
    IF d # "ok" THEN Raise(d, cs, ls)
    ELSE Result(201, "ok",
                Put(cs, next_id, [book_id      |-> req.book_id,
                                  copy_number  |-> req.copy_number,
                                  is_available |-> req.is_available]),
                ls)

validar_atualizacao_copia(cs, copy_id, upd) ==
    IF copy_id \notin DOMAIN cs THEN "copy_not_found"
    ELSE IF /\ "copy_number" \in upd.fields
            /\ \E i \in DOMAIN cs : /\ cs[i].book_id = cs[copy_id].book_id
                                    /\ cs[i].copy_number = upd.copy_number
                                    /\ i # copy_id
        THEN "copy_number_taken"
    ELSE "ok"

\* for field, value in update_data.items(): setattr(db_copia, field, value)
AplicarAtualizacaoCopia(c, upd) ==
    [book_id      |-> c.book_id,
     copy_number  |-> IF "copy_number" \in upd.fields THEN upd.copy_number ELSE c.copy_number,
     is_available |-> IF "is_available" \in upd.fields THEN upd.is_available ELSE c.is_available]

ExecAtualizarCopia(cs, ls, copy_id, upd) ==
    LET d == validar_atualizacao_copia(cs, copy_id, upd) IN
    IF d # "ok" THEN Raise(d, cs, ls)
    ELSE Result(200, "ok",
                [cs EXCEPT ![copy_id] = AplicarAtualizacaoCopia(cs[copy_id], upd)],
                ls)

\* borrow.book_copy_id is a NOT NULL foreign key to book_copy.id: the store
\* refuses to delete (or to orphan) a copy row that a borrow row references
ReferenciadaPorEmprestimo(ls, copy_id) ==
    \E i \in DOMAIN ls : ls[i].book_copy_id = copy_id

\* deletar_copia without the test of is_available
validar_delecao_copia_sem_flag(cs, ls, copy_id) ==
    IF copy_id \notin DOMAIN cs THEN "copy_not_found"
    ELSE IF ReferenciadaPorEmprestimo(ls, copy_id) THEN "integrity_error"
    ELSE "ok"

validar_delecao_copia(cs, ls, copy_id) ==
    IF copy_id \notin DOMAIN cs THEN "copy_not_found"
    ELSE IF ~cs[copy_id].is_available THEN "copy_on_loan"
    ELSE IF ReferenciadaPorEmprestimo(ls, copy_id) THEN "integrity_error"
    ELSE "ok"

ExecDeletarCopia(cs, ls, copy_id) ==
    LET d == validar_delecao_copia(cs, ls, copy_id) IN
    IF d # "ok" THEN Raise(d, cs, ls)
    ELSE Result(204, "ok", Drop(cs, copy_id), ls)

\* ---------------------------------------------------------------- user.py
\* A str is the tuple of its characters.  The character classes of the pattern
\* of validar_email, over the characters the model writes emails with
Letras      == {"a", "b", "c", "o"}               \* of [a-zA-Z]

LocalChars  == Letras \cup {"1", ".", "_", "%", "+", "-"}   \* of [a-zA-Z0-9._%+-]

DomainChars == Letras \cup {"1", ".", "-"}        \* of [a-zA-Z0-9.-]

\* every character of s from position i to position j is in class
TodosEm(s, i, j, class) == \A k \in i..j : s[k] \in class

\* re.match(r'^[a-zA-Z0-9._%+-]+@[a-zA-Z0-9.-]+\.[a-zA-Z]{2,}$', email): there
\* is a way to split email into local part, "@", domain, ".", and two letters
\* or more
validar_email(email) ==
    \E i \in 1..Len(email), j \in 1..Len(email) :
        /\ email[i] = "@"
        /\ 1 < i /\ TodosEm(email, 1, i - 1, LocalChars)
        /\ i + 1 < j /\ TodosEm(email, i + 1, j - 1, DomainChars)
        /\ email[j] = "."
        /\ j + 2 <= Len(email) /\ TodosEm(email, j + 1, Len(email), Letras)

validar_senha(senha) == Len(senha) >= 6

\* `if usuario_update.email:` and `if ... password_hash and ...`: a str is
\* true unless it is empty
Truthy(str) == str # << >>

\* what a handler of user.py answers and leaves in table user
UserResult(status, detail, us) == [status |-> status, detail |-> detail, users |-> us]

\* db.query(User) finds any row of table user; db.query(Funcionario) and
\* db.query(Cliente) join it with their own table and find only their kind
Encontrado(us, kind, user_id) ==
    user_id \in DOMAIN us /\ (kind = "user" \/ us[user_id].user_type = kind)

\* criar_usuario, criar_funcionario, criar_cliente: the same three checks
validar_usuario(us, req) ==
    IF ~validar_email(req.email) THEN "email_invalid"
    ELSE IF ~validar_senha(req.password_hash) THEN "password_short"
    ELSE IF \E u \in DOMAIN us : us[u].email = req.email THEN "email_taken"
    ELSE "ok"

\* db.add(User(...)) / db.add(Funcionario(...)) / db.add(Cliente(...)); db.commit():
\* the new row takes the next AUTO_INCREMENT id and its polymorphic identity
ExecCriarUsuario(us, next_id, user_type, req) ==
    LET d == validar_usuario(us, req) IN
    IF d # "ok" THEN UserResult(StatusOf(d), d, us)
    ELSE UserResult(201, "ok", Put(us, next_id, [user_type |-> user_type, email |-> req.email]))

\* atualizar_usuario, atualizar_funcionario, atualizar_cliente: the checks run
\* only on a field that is sent and true
validar_atualizacao_usuario(us, kind, user_id, upd) ==
    IF ~Encontrado(us, kind, user_id) THEN "user_not_found"
    ELSE IF "email" \in upd.fields /\ Truthy(upd.email) /\ ~validar_email(upd.email)
        THEN "email_invalid"
    ELSE IF /\ "email" \in upd.fields /\ Truthy(upd.email)
            /\ \E u \in DOMAIN us : us[u].email = upd.email /\ u # user_id
        THEN "email_taken"
    ELSE IF /\ "password_hash" \in upd.fields /\ Truthy(upd.password_hash)
            /\ ~validar_senha(upd.password_hash)
        THEN "password_short"
    ELSE "ok"

\* for field, value in update_data.items(): setattr(db_usuario, field, value);
\* db.commit().  user.email is unique: the UPDATE fails, and the transaction
\* is rolled back, when another row holds the email written
ExecAtualizarUsuario(us, kind, user_id, upd) ==
    LET d == validar_atualizacao_usuario(us, kind, user_id, upd) IN
    IF d # "ok" THEN UserResult(StatusOf(d), d, us)
    ELSE IF "email" \notin upd.fields THEN UserResult(200, "ok", us)
    ELSE IF \E u \in DOMAIN us : us[u].email = upd.email /\ u # user_id
        THEN UserResult(StatusOf("integrity_error"), "integrity_error", us)
    ELSE UserResult(200, "ok", [us EXCEPT ![user_id].email = upd.email])

\* borrow.borrower_id and borrow.lender_id are NOT NULL foreign keys to user.id
UsuarioReferenciado(ls, user_id) ==
    \E i \in DOMAIN ls : ls[i].borrower_id = user_id \/ ls[i].lender_id = user_id

\* deletar_usuario with the store not enforcing the foreign keys of borrow
validar_delecao_usuario_sem_fk(us, ls, kind, user_id) ==
    IF ~Encontrado(us, kind, user_id) THEN "user_not_found" ELSE "ok"

\* deletar_usuario, deletar_funcionario, deletar_cliente test only that the
\* row exists; db.delete(); db.commit() fails when a borrow row references it
validar_delecao_usuario(us, ls, kind, user_id) ==
    IF ~Encontrado(us, kind, user_id) THEN "user_not_found"
    ELSE IF UsuarioReferenciado(ls, user_id) THEN "integrity_error"
    ELSE "ok"

ExecDeletarUsuario(us, ls, kind, user_id) ==
    LET d == validar_delecao_usuario(us, ls, kind, user_id) IN
    IF d # "ok" THEN UserResult(StatusOf(d), d, us)
    ELSE UserResult(204, "ok", Drop(us, user_id))

\* ---------------------------------------------------------------- requests
\* the request bodies and path parameters the model draws
DueDateInputs == {now, now + 1}

ReturnDateInputs == {NULL, 0}

BorrowRequests(copy_ids) ==
    [book_copy_id : copy_ids, borrower_id : UserIds, lender_id : UserIds,
     due_date : DueDateInputs]

CopyCreateRequests(copy_numbers) ==
    [book_id : BookIds, copy_number : copy_numbers, is_available : BOOLEAN]

\* a BookCopyUpdate body: `fields` are the fields the client sent (the keys of
\* model_dump(exclude_unset=True)); a field left out keeps its default
CopyUpdateRequests(copy_numbers) ==
    {u \in [fields : SUBSET {"copy_number", "is_available"},
            copy_number : copy_numbers, is_available : BOOLEAN] :
        /\ "copy_number" \notin u.fields => u.copy_number = 1
        /\ "is_available" \notin u.fields => u.is_available = TRUE}

\* the emails and passwords the model sends: three well-formed addresses, one
\* without a top-level domain, the empty string; a password and a short one
EmailA == <<"a", "@", "b", ".", "c", "o">>

EmailB == <<"c", "1", "@", "b", "-", "a", ".", "c", "o", "c">>

EmailC == <<"b", "%", "o", "@", "a", ".", "b", "o">>

EmailInputs == {EmailA, EmailB, EmailC, <<"a", "@", "b">>, << >>}

SenhaBoa == <<"a", "b", "c", "1", "2", "3">>

PasswordInputs == {SenhaBoa, <<"a", "b", "c">>}

UserCreateRequests == [email : EmailInputs, password_hash : PasswordInputs]

\* the well-formed request the n-th user registers with, where emails matter
\* to nothing else
Cadastro(n) == [email |-> IF n = 1 THEN EmailA ELSE EmailB, password_hash |-> SenhaBoa]

\* a UserUpdate / FuncionarioUpdate / ClienteUpdate body: `fields` are the
\* fields the client sent; a field left out keeps its default
UserUpdateRequests ==
    {u \in [fields : SUBSET {"email", "password_hash"},
            email : EmailInputs, password_hash : PasswordInputs] :
        /\ "email" \notin u.fields => u.email = << >>
        /\ "password_hash" \notin u.fields => u.password_hash = SenhaBoa}

\* ---------------------------------------------------------------- worker threads
Workers == 1..NWorkers

\* what a worker holds of the request it serves: pc is "idle", "pending" (the
\* queries are done, db.commit() is still to come) or "done" (answered)
Session(pc, op, req, loan, data, copy_found, loaded_flag, status, raced) ==
    [pc |-> pc, op |-> op, req |-> req, loan |-> loan, data |-> data,
     copy_found |-> copy_found, loaded_flag |-> loaded_flag,
     status |-> status, raced |-> raced]

NoRequest == [book_copy_id |-> 0, borrower_id |-> 0, lender_id |-> 0, due_date |-> 0]

Idle == Session("idle", "none", NoRequest, 0, NULL, FALSE, FALSE, 0, FALSE)

Done(op, req, status, raced) ==
    Session("done", op, req, 0, NULL, FALSE, FALSE, status, raced)

\* ---------------------------------------------------------------- actions
\* a handler of the borrow or copy endpoints commits the tables of its result
Commit(r) ==
    /\ copies' = r.copies
    /\ loans' = r.loans

\* max_rows bounds the rows of table borrow
criar_emprestimo(req, max_rows) ==
    LET r == ExecCriarEmprestimo(users, copies, loans, now, req) IN
    /\ r.status = 201 => Len(loans) < max_rows
    /\ Commit(r)
    /\ UNCHANGED <<users, books, nextUserId, nextBookId, nextCopyId, now, sess>>

marcar_devolucao(borrow_id, return_date) ==
    /\ Commit(ExecMarcarDevolucao(copies, loans, now, borrow_id, return_date))
    /\ UNCHANGED <<users, books, nextUserId, nextBookId, nextCopyId, now, sess>>

atualizar_emprestimo(borrow_id, due_date) ==
    /\ Commit(ExecAtualizarEmprestimo(copies, loans, now, borrow_id, due_date))
    /\ UNCHANGED <<users, books, nextUserId, nextBookId, nextCopyId, now, sess>>

\* max_rows bounds the rows ever inserted into table book_copy
criar_copia(req, max_rows) ==
    LET r == ExecCriarCopia(books, copies, loans, nextCopyId, req) IN
    /\ r.status = 201 => nextCopyId <= max_rows
    /\ Commit(r)
    /\ nextCopyId' = IF r.status = 201 THEN nextCopyId + 1 ELSE nextCopyId
    /\ UNCHANGED <<users, books, nextUserId, nextBookId, now, sess>>

atualizar_copia(copy_id, upd) ==
    /\ Commit(ExecAtualizarCopia(copies, loans, copy_id, upd))
    /\ UNCHANGED <<users, books, nextUserId, nextBookId, nextCopyId, now, sess>>

deletar_copia(copy_id) ==
    /\ Commit(ExecDeletarCopia(copies, loans, copy_id))
    /\ UNCHANGED <<users, books, nextUserId, nextBookId, nextCopyId, now, sess>>

\* the handlers of user.py commit table user; MaxUsers bounds the rows ever
\* inserted
InserirUsuario(user_type, req) ==
    LET r == ExecCriarUsuario(users, nextUserId, user_type, req) IN
    /\ r.status = 201 => nextUserId <= MaxUsers
    /\ users' = r.users
    /\ nextUserId' = IF r.status = 201 THEN nextUserId + 1 ELSE nextUserId
    /\ UNCHANGED <<books, copies, loans, nextBookId, nextCopyId, now, sess>>

criar_usuario(req) == InserirUsuario("user", req)

criar_funcionario(req) == InserirUsuario("funcionario", req)

criar_cliente(req) == InserirUsuario("cliente", req)

AtualizarUsuario(kind, user_id, upd) ==
    /\ users' = ExecAtualizarUsuario(users, kind, user_id, upd).users
    /\ UNCHANGED <<books, copies, loans, nextUserId, nextBookId, nextCopyId, now, sess>>

atualizar_usuario(user_id, upd) == AtualizarUsuario("user", user_id, upd)

atualizar_funcionario(user_id, upd) == AtualizarUsuario("funcionario", user_id, upd)

atualizar_cliente(user_id, upd) == AtualizarUsuario("cliente", user_id, upd)

DeletarUsuario(kind, user_id) ==
    /\ users' = ExecDeletarUsuario(users, loans, kind, user_id).users
    /\ UNCHANGED <<books, copies, loans, nextUserId, nextBookId, nextCopyId, now, sess>>

deletar_usuario(user_id) == DeletarUsuario("user", user_id)

deletar_funcionario(user_id) == DeletarUsuario("funcionario", user_id)

deletar_cliente(user_id) == DeletarUsuario("cliente", user_id)

criar_livro ==
    /\ nextBookId <= MaxBooks
    /\ books' = books \cup {nextBookId}
    /\ nextBookId' = nextBookId + 1
    /\ UNCHANGED <<users, copies, loans, nextUserId, nextCopyId, now, sess>>

Tick ==
    /\ now < MaxTime
    /\ now' = now + 1
    /\ UNCHANGED <<dbvars, sess>>

\* ---------------------------------------------------------------- specifications
\* main.py: Base.metadata.drop_all / create_all leave every table empty
Init ==
    /\ users = << >>
    /\ books = {}
    /\ copies = << >>
    /\ loans = << >>
    /\ nextUserId = 1
    /\ nextBookId = 1
    /\ nextCopyId = 1
    /\ now = 0
    /\ sess = [w \in Workers |-> Idle]

\* Spec: the endpoints that write a copy, a loan or the existence of a user,
\* any request, one request at a time; users register with Cadastro
Next ==
    \/ criar_usuario(Cadastro(nextUserId))
    \/ criar_funcionario(Cadastro(nextUserId))
    \/ criar_cliente(Cadastro(nextUserId))
    \/ \E u \in UserIds : deletar_usuario(u)
    \/ \E u \in UserIds : deletar_funcionario(u)
    \/ \E u \in UserIds : deletar_cliente(u)
    \/ criar_livro
    \/ \E req \in CopyCreateRequests(1..MaxCopies) : criar_copia(req, MaxCopies)
    \/ \E c \in 1..MaxCopies, upd \in CopyUpdateRequests(1..MaxCopies) : atualizar_copia(c, upd)
    \/ \E c \in 1..MaxCopies : deletar_copia(c)
    \/ \E req \in BorrowRequests(1..MaxCopies) : criar_emprestimo(req, MaxLoans)
    \/ \E b \in 1..MaxLoans, d \in ReturnDateInputs : marcar_devolucao(b, d)
    \/ \E b \in 1..MaxLoans, d \in DueDateInputs \cup {NULL} : atualizar_emprestimo(b, d)
    \/ Tick

Spec == Init /\ [][Next]_vars

\* the catalogue the borrow endpoints work on: the first user registered is an
\* employee, the second a customer, and every copy is registered as available
\* under the next free copy number
Catalogo(max_copies) ==
    \/ nextUserId = 1 /\ criar_funcionario(Cadastro(1))
    \/ nextUserId = 2 /\ criar_cliente(Cadastro(2))
    \/ criar_livro
    \/ \E req \in CopyCreateRequests({nextCopyId}) :
            req.is_available /\ criar_copia(req, max_copies)

\* SpecLoans: the borrow endpoints and the clock over that catalogue
NextLoans ==
    \/ Catalogo(LoanCopies)
    \/ \E req \in BorrowRequests(1..LoanCopies) : criar_emprestimo(req, LoanRows)
    \/ \E b \in 1..LoanRows, d \in ReturnDateInputs : marcar_devolucao(b, d)
    \/ \E b \in 1..LoanRows, d \in DueDateInputs \cup {NULL} : atualizar_emprestimo(b, d)
    \/ Tick

SpecLoans == Init /\ [][NextLoans]_vars

\* SpecLimit: loans and returns over a larger catalogue, the clock standing still
NextLimit ==
    \/ Catalogo(LimitCopies)
    \/ \E req \in BorrowRequests(1..LimitCopies) : criar_emprestimo(req, LimitRows)
    \/ \E b \in 1..LimitRows : marcar_devolucao(b, NULL)

SpecLimit == Init /\ [][NextLimit]_vars

\* SpecPolicy: loans up to the limit, and the return of the first, while the
\* clock runs
NextPolicy ==
    \/ Catalogo(PolicyCopies)
    \/ \E req \in BorrowRequests(1..PolicyCopies) : criar_emprestimo(req, PolicyRows)
    \/ marcar_devolucao(1, NULL)
    \/ Tick

SpecPolicy == Init /\ [][NextPolicy]_vars

\* ---------------------------------------------------------------- SpecConc
\* The endpoints are plain `def` handlers, which FastAPI runs on a thread pool,
\* each with its own Session (get_db).  All queries of a handler read the
\* snapshot its first query opens (InnoDB REPEATABLE READ), so the read phase is
\* one step; db.commit() is the other.  raced records, for a worker whose loan
\* request is pending, that another worker committed a loan of the same copy
\* in the meantime.
BeginCriarEmprestimo(w, req) ==
    LET d == validar_emprestimo(users, copies, loans, now, req) IN
    /\ sess[w].pc = "idle"
    /\ sess' = [sess EXCEPT ![w] =
                  IF d # "ok" THEN Done("criar_emprestimo", req, StatusOf(d), FALSE)
                  ELSE Session("pending", "criar_emprestimo", req, 0, NULL,
                               TRUE, TRUE, 0, FALSE)]
    /\ UNCHANGED <<dbvars, now>>

\* max_rows bounds the rows of table borrow
CommitCriarEmprestimo(w, max_rows) ==
    LET req == sess[w].req
        r   == FlushCriarEmprestimo(users, copies, loans, now, req) IN
    /\ sess[w].pc = "pending"
    /\ sess[w].op = "criar_emprestimo"
    /\ r.status = 201 => Len(loans) < max_rows
    /\ Commit(r)
    /\ sess' = [v \in Workers |->
                  IF v = w THEN Done("criar_emprestimo", req, r.status, sess[w].raced)
                  ELSE IF /\ r.status = 201
                          /\ sess[v].pc = "pending"
                          /\ sess[v].op = "criar_emprestimo"
                          /\ sess[v].req.book_copy_id = req.book_copy_id
                       THEN [sess[v] EXCEPT !.raced = TRUE]
                  ELSE sess[v]]
    /\ UNCHANGED <<users, books, nextUserId, nextBookId, nextCopyId, now>>

BeginMarcarDevolucao(w, borrow_id, return_date) ==
    LET d == validar_devolucao(loans, borrow_id) IN
    /\ sess[w].pc = "idle"
    /\ sess' = [sess EXCEPT ![w] =
                  IF d # "ok" THEN Done("marcar_devolucao", NoRequest, StatusOf(d), FALSE)
                  ELSE Session("pending", "marcar_devolucao", NoRequest, borrow_id,
                               data_devolucao(return_date, now),
                               loans[borrow_id].book_copy_id \in DOMAIN copies,
                               LoadedFlag(copies, loans[borrow_id].book_copy_id),
                               0, FALSE)]
    /\ UNCHANGED <<dbvars, now>>

CommitMarcarDevolucao(w) ==
    LET r == FlushMarcarDevolucao(copies, loans, sess[w].loan, sess[w].data,
                                  sess[w].copy_found, sess[w].loaded_flag) IN
    /\ sess[w].pc = "pending"
    /\ sess[w].op = "marcar_devolucao"
    /\ Commit(r)
    /\ sess' = [sess EXCEPT ![w] = Done("marcar_devolucao", NoRequest, r.status, FALSE)]
    /\ UNCHANGED <<users, books, nextUserId, nextBookId, nextCopyId, now>>

\* the response is sent and the worker takes the next request
Responder(w) ==
    /\ sess[w].pc = "done"
    /\ sess' = [sess EXCEPT ![w] = Idle]
    /\ UNCHANGED <<dbvars, now>>

NextConc ==
    \/ Catalogo(ConcCopies)
    \/ \E c \in 1..ConcCopies : deletar_copia(c)
    \/ \E w \in Workers, req \in BorrowRequests(1..ConcCopies) : BeginCriarEmprestimo(w, req)
    \/ \E w \in Workers : CommitCriarEmprestimo(w, ConcRows)
    \/ \E w \in Workers, b \in 1..ConcRows, d \in ReturnDateInputs : BeginMarcarDevolucao(w, b, d)
    \/ \E w \in Workers : CommitMarcarDevolucao(w)
    \/ \E w \in Workers : Responder(w)

SpecConc == Init /\ [][NextConc]_vars

\* SpecClose: returns served by concurrent workers, with the return date left
\* out (now) or supplied (the next tick), of loans made one at a time
NextClose ==
    \/ Catalogo(ConcCopies)
    \/ \E req \in BorrowRequests(1..ConcCopies) : criar_emprestimo(req, ConcRows)
    \/ \E w \in Workers, b \in 1..ConcRows, d \in {NULL, now + 1} : BeginMarcarDevolucao(w, b, d)
    \/ \E w \in Workers : CommitMarcarDevolucao(w)
    \/ \E w \in Workers : Responder(w)

SpecClose == Init /\ [][NextClose]_vars

\* SpecRace: the first loans are made one at a time, of the first copies of a
\* larger catalogue; then each worker serves one loan request for one of the
\* other copies, the two together, the clock standing still
NextRace ==
    \/ Catalogo(RaceCopies)
    \/ \E req \in BorrowRequests(1..RaceSeqRows) : criar_emprestimo(req, RaceSeqRows)
    \/ \E w \in Workers, req \in BorrowRequests((RaceSeqRows + 1)..RaceCopies) :
            BeginCriarEmprestimo(w, req)
    \/ \E w \in Workers : CommitCriarEmprestimo(w, RaceRows)

SpecRace == Init /\ [][NextRace]_vars

\* SpecClock: the clock runs while a worker serves a loan request: the handler
\* reads datetime.now() for its check of due_date, and the store reads now()
\* for borrow_date when the INSERT is flushed at db.commit()
NextClock ==
    \/ Catalogo(ConcCopies)
    \/ \E w \in Workers, req \in BorrowRequests(1..ConcCopies) : BeginCriarEmprestimo(w, req)
    \/ \E w \in Workers : CommitCriarEmprestimo(w, ConcRows)
    \/ \E w \in Workers : Responder(w)
    \/ \E b \in 1..ConcRows, d \in DueDateInputs \cup {NULL} : atualizar_emprestimo(b, d)
    \/ Tick

SpecClock == Init /\ [][NextClock]_vars

\* SpecUsers: the endpoints of user.py that write table user, any request
NextUsers ==
    \/ \E req \in UserCreateRequests : criar_usuario(req)
    \/ \E req \in UserCreateRequests : criar_funcionario(req)
    \/ \E req \in UserCreateRequests : criar_cliente(req)
    \/ \E u \in UserIds, upd \in UserUpdateRequests : atualizar_usuario(u, upd)
    \/ \E u \in UserIds, upd \in UserUpdateRequests : atualizar_funcionario(u, upd)
    \/ \E u \in UserIds, upd \in UserUpdateRequests : atualizar_cliente(u, upd)
    \/ \E u \in UserIds : deletar_usuario(u)
    \/ \E u \in UserIds : deletar_funcionario(u)
    \/ \E u \in UserIds : deletar_cliente(u)

SpecUsers == Init /\ [][NextUsers]_vars

\* ---------------------------------------------------------------- claims
\* the requests a client may send in the current state: ids of rows that exist
\* and one that does not, and every date of the clock
Dates == 0..(MaxTime + 1)

AnyBorrowRequests ==
    [book_copy_id : (DOMAIN copies) \cup {0},
     borrower_id  : (DOMAIN users) \cup {0},
     lender_id    : (DOMAIN users) \cup {0},
     due_date     : Dates]

AnyReturnDates == Dates \cup {NULL}

OpenLoansOfCopy(ls, c) ==
    {i \in DOMAIN ls : ls[i].book_copy_id = c /\ ls[i].return_date = NULL}

ClosedLoansOfCopy(ls, c) ==
    {i \in DOMAIN ls : ls[i].book_copy_id = c /\ ls[i].return_date # NULL}

OpenLoansOfBorrower(ls, b) ==
    {i \in DOMAIN ls : ls[i].borrower_id = b /\ ls[i].return_date = NULL}

Rejected(r) == r.status \in {400, 404}

\* C1: in every state, a copy's is_available is false if and only if exactly
\* one open loan references the copy.
C1_FlagIffOneOpenLoan ==
    \A c \in DOMAIN copies :
        (copies[c].is_available = FALSE) <=> (Cardinality(OpenLoansOfCopy(loans, c)) = 1)

\* C2: at no time do two or more open loans reference the same copy.
C2_AtMostOneOpenLoan ==
    \A i, j \in DOMAIN loans :
        (/\ i # j
         /\ loans[i].return_date = NULL
         /\ loans[j].return_date = NULL)
        => loans[i].book_copy_id # loans[j].book_copy_id

\* C3: of two loan requests for the same copy that are in flight together, the
\* one that commits after the other has committed its loan is rejected.
C3_OneWinner ==
    \A w \in Workers :
        (/\ sess[w].pc = "done"
         /\ sess[w].op = "criar_emprestimo"
         /\ sess[w].raced)
        => sess[w].status # 201

\* C4: a loan request for an existing copy whose is_available is false is
\* answered 400 and changes no table, whoever the borrower and the lender are
\* and whatever the due date is.
C4_UnavailableRejected ==
    \A req \in AnyBorrowRequests :
        (/\ req.book_copy_id \in DOMAIN copies
         /\ ~copies[req.book_copy_id].is_available)
        => LET r == ExecCriarEmprestimo(users, copies, loans, now, req) IN
           /\ r.status = 400
           /\ r.loans = loans
           /\ r.copies = copies

\* C4 witness: a copy is on loan and a request for it names a borrower, an
\* employee as lender and a future due date.
C4_Witness ==
    \E req \in AnyBorrowRequests :
        /\ req.book_copy_id \in DOMAIN copies
        /\ ~copies[req.book_copy_id].is_available
        /\ OpenLoansOfCopy(loans, req.book_copy_id) # {}
        /\ req.borrower_id \in DOMAIN users
        /\ req.lender_id \in DOMAIN users
        /\ users[req.lender_id].user_type = "funcionario"
        /\ req.due_date > now
        /\ ExecCriarEmprestimo(users, copies, loans, now, req).detail = "copy_unavailable"

\* C5: while a borrower has 3 open loans, every loan request for that borrower
\* is rejected and changes no table.
C5_LimitRejected ==
    \A req \in AnyBorrowRequests :
        Cardinality(OpenLoansOfBorrower(loans, req.borrower_id)) = 3
        => LET r == ExecCriarEmprestimo(users, copies, loans, now, req) IN
           /\ Rejected(r)
           /\ r.loans = loans
           /\ r.copies = copies

\* C5 witness: a borrower has 3 open loans and asks for a fourth with an
\* available copy, an employee as lender and a future due date.
C5_Witness ==
    \E req \in AnyBorrowRequests :
        /\ Cardinality(OpenLoansOfBorrower(loans, req.borrower_id)) = 3
        /\ req.book_copy_id \in DOMAIN copies
        /\ copies[req.book_copy_id].is_available
        /\ req.lender_id \in DOMAIN users
        /\ users[req.lender_id].user_type = "funcionario"
        /\ req.due_date > now
        /\ ExecCriarEmprestimo(users, copies, loans, now, req).detail = "limit_reached"

\* C6: while a borrower has an open loan whose due date is before now, every
\* loan request for that borrower is rejected and changes no table.
C6_OverdueRejected ==
    \A req \in AnyBorrowRequests :
        (\E i \in DOMAIN loans : /\ loans[i].borrower_id = req.borrower_id
                                 /\ loans[i].return_date = NULL
                                 /\ loans[i].due_date < now)
        => LET r == ExecCriarEmprestimo(users, copies, loans, now, req) IN
           /\ Rejected(r)
           /\ r.loans = loans
           /\ r.copies = copies

\* C6 witness: a borrower with an overdue open loan and fewer than 3 open
\* loans asks for an available copy, with an employee as lender and a future
\* due date.
C6_Witness ==
    \E req \in AnyBorrowRequests :
        /\ \E i \in DOMAIN loans : /\ loans[i].borrower_id = req.borrower_id
                                   /\ loans[i].return_date = NULL
                                   /\ loans[i].due_date < now
        /\ req.book_copy_id \in DOMAIN copies
        /\ copies[req.book_copy_id].is_available
        /\ req.due_date > now
        /\ ExecCriarEmprestimo(users, copies, loans, now, req).detail = "borrower_overdue"

\* C7: closing an open loan succeeds, and closing it a second time, whenever
\* and with whatever return date, is answered 400 and changes neither the
\* loan's return_date nor any copy.
C7_SecondCloseRejected ==
    \A b \in DOMAIN loans, d1 \in AnyReturnDates, d2 \in AnyReturnDates, t \in now..MaxTime :
        loans[b].return_date = NULL
        => LET r1 == ExecMarcarDevolucao(copies, loans, now, b, d1)
               r2 == ExecMarcarDevolucao(r1.copies, r1.loans, t, b, d2) IN
           /\ r1.status = 200
           /\ r2.status = 400
           /\ r2.loans = r1.loans
           /\ r2.copies = r1.copies

\* C7 witness: a loan has been closed, its copy is available again, and a
\* further close of it is refused as already returned.
C7_Witness ==
    \E b \in DOMAIN loans :
        /\ loans[b].return_date # NULL
        /\ loans[b].book_copy_id \in DOMAIN copies
        /\ copies[loans[b].book_copy_id].is_available
        /\ ExecMarcarDevolucao(copies, loans, now, b, NULL).detail = "already_returned"

\* the tables after the marcar_devolucao of the loan that an approved
\* criar_emprestimo, whose result is r1, has just created
RoundTrip(r1, return_date) ==
    ExecMarcarDevolucao(r1.copies, r1.loans, now, Len(r1.loans), return_date)

\* C8 as stated: after a successful openLoan and the closeLoan of its loan the
\* copy is available, exactly one closed loan references the copy and no open
\* one does.
C8_ExactlyOneClosedLoan ==
    \A req \in AnyBorrowRequests :
        LET r1 == ExecCriarEmprestimo(users, copies, loans, now, req) IN
        r1.status = 201 =>
            \A d \in AnyReturnDates :
                LET r2 == RoundTrip(r1, d) IN
                /\ r2.status = 200
                /\ r2.copies[req.book_copy_id].is_available
                /\ Cardinality(ClosedLoansOfCopy(r2.loans, req.book_copy_id)) = 1
                /\ OpenLoansOfCopy(r2.loans, req.book_copy_id) = {}

\* C8: after a successful openLoan and the closeLoan of its loan the copy is
\* available, the new loan is closed, and the copy has the closed loans it had
\* before plus the new one and the open loans it had before.
C8_RoundTrip ==
    \A req \in AnyBorrowRequests :
        LET r1 == ExecCriarEmprestimo(users, copies, loans, now, req)
            id == Len(loans) + 1 IN
        r1.status = 201 =>
            \A d \in AnyReturnDates :
                LET r2 == RoundTrip(r1, d) IN
                /\ r2.status = 200
                /\ r2.copies[req.book_copy_id].is_available
                /\ r2.loans[id].return_date # NULL
                /\ ClosedLoansOfCopy(r2.loans, req.book_copy_id)
                     = ClosedLoansOfCopy(loans, req.book_copy_id) \cup {id}
                /\ OpenLoansOfCopy(r2.loans, req.book_copy_id)
                     = OpenLoansOfCopy(loans, req.book_copy_id)

\* C8 witness: a copy has gone through two round trips: it is available, two
\* closed loans reference it and no open one does.
C8_Witness ==
    \E c \in DOMAIN copies :
        /\ copies[c].is_available
        /\ Cardinality(ClosedLoansOfCopy(loans, c)) = 2
        /\ OpenLoansOfCopy(loans, c) = {}

\* C9: a request to open a loan, close a loan or change a due date that is
\* answered 400 or 404 leaves the tables as they were.
C9_RejectionChangesNothing ==
    /\ \A req \in AnyBorrowRequests :
          LET r == ExecCriarEmprestimo(users, copies, loans, now, req) IN
          Rejected(r) => r.copies = copies /\ r.loans = loans
    /\ \A b \in (DOMAIN loans) \cup {0}, d \in AnyReturnDates :
          /\ LET r == ExecMarcarDevolucao(copies, loans, now, b, d) IN
             Rejected(r) => r.copies = copies /\ r.loans = loans
          /\ LET r == ExecAtualizarEmprestimo(copies, loans, now, b, d) IN
             Rejected(r) => r.copies = copies /\ r.loans = loans

\* C9 witness: with one loan closed and another open on a copy, a request of
\* each of the three kinds is rejected for a reason other than a missing row.
C9_Witness ==
    /\ \E req \in AnyBorrowRequests :
          ExecCriarEmprestimo(users, copies, loans, now, req).detail = "copy_unavailable"
    /\ \E b \in DOMAIN loans :
          ExecMarcarDevolucao(copies, loans, now, b, NULL).detail = "already_returned"
    /\ \E b \in DOMAIN loans :
          /\ loans[b].return_date = NULL
          /\ ExecAtualizarEmprestimo(copies, loans, now, b, now).detail = "due_not_future"

\* worker w commits its transaction in this step
Commits(w) == sess[w].pc = "pending" /\ sess'[w].pc = "done"

\* C10: the commit of a loan request inserts the loan and clears the copy's
\* flag together, the commit of a return writes return_date and the flag it
\* marked together, a failed commit writes nothing, and no step changes a
\* copy's flag or a loan without being such a commit.
C10_AllOrNothing ==
    [][/\ \A w \in Workers :
            Commits(w) =>
                IF sess'[w].status \notin {200, 201}
                    THEN copies' = copies /\ loans' = loans
                ELSE IF sess[w].op = "criar_emprestimo"
                    THEN /\ loans' = Append(loans, NovoEmprestimo(sess[w].req, now))
                         /\ ~copies'[sess[w].req.book_copy_id].is_available
                ELSE /\ loans'[sess[w].loan].return_date = sess[w].data
                     /\ (sess[w].copy_found /\ ~sess[w].loaded_flag)
                            => copies'[loans[sess[w].loan].book_copy_id].is_available
       /\ \A c \in (DOMAIN copies) \cap (DOMAIN copies') :
            copies'[c].is_available # copies[c].is_available =>
                \E w \in Workers :
                    /\ Commits(w)
                    /\ IF sess[w].op = "criar_emprestimo"
                        THEN /\ Len(loans') = Len(loans) + 1
                             /\ loans'[Len(loans')].book_copy_id = c
                             /\ ~copies'[c].is_available
                        ELSE /\ loans[sess[w].loan].book_copy_id = c
                             /\ loans'[sess[w].loan].return_date = sess[w].data
                             /\ copies'[c].is_available
       /\ loans' # loans => \E w \in Workers : Commits(w) /\ sess'[w].status \in {200, 201}
      ]_vars

\* C10 witness: a loan request has committed: it is answered 201, its loan is
\* in the table and its copy is flagged unavailable.
C10_Witness ==
    \E w \in Workers :
        /\ sess[w].pc = "done"
        /\ sess[w].op = "criar_emprestimo"
        /\ sess[w].status = 201
        /\ \E i \in DOMAIN loans : loans[i].book_copy_id = sess[w].req.book_copy_id
        /\ ~copies[sess[w].req.book_copy_id].is_available

\* C11: a loan request is approved if and only if its due date is after now,
\* its copy exists and is flagged available, its borrower exists, its lender
\* exists and is an employee, the borrower has fewer than 3 open loans and none
\* of them is past its due date.
C11_ApprovedIff ==
    \A req \in AnyBorrowRequests :
        (ExecCriarEmprestimo(users, copies, loans, now, req).status = 201)
        <=> (/\ req.due_date > now
             /\ req.book_copy_id \in DOMAIN copies
             /\ copies[req.book_copy_id].is_available
             /\ req.borrower_id \in DOMAIN users
             /\ req.lender_id \in DOMAIN users
             /\ users[req.lender_id].user_type = "funcionario"
             /\ Cardinality(OpenLoansOfBorrower(loans, req.borrower_id)) < 3
             /\ \A i \in OpenLoansOfBorrower(loans, req.borrower_id) :
                    loans[i].due_date >= now)

\* C11 witness: loans have been approved, and of two requests for an available
\* copy the one of a borrower with an overdue loan is refused while the one of
\* another borrower is approved.
C11_Witness ==
    \E r1 \in AnyBorrowRequests, r2 \in AnyBorrowRequests :
        /\ Len(loans) > 0
        /\ r1.book_copy_id = r2.book_copy_id
        /\ ExecCriarEmprestimo(users, copies, loans, now, r1).status = 201
        /\ ExecCriarEmprestimo(users, copies, loans, now, r2).detail = "borrower_overdue"

\* C12: an approved loan request appends exactly one loan, with borrow_date =
\* now, return_date null and the copy, borrower, lender and due date of the
\* request, clears the flag of that copy, and leaves every other loan, every
\* other copy, the users and the books as they were: a step that adds a loan
\* is the commit of such a request.
C12_OpenLoanFrame ==
    [][Len(loans') > Len(loans) =>
        /\ \A req \in AnyBorrowRequests :
              LET r == ExecCriarEmprestimo(users, copies, loans, now, req) IN
              r.status = 201 =>
                  /\ r.loans = Append(loans, [book_copy_id |-> req.book_copy_id,
                                              borrower_id  |-> req.borrower_id,
                                              lender_id    |-> req.lender_id,
                                              borrow_date  |-> now,
                                              due_date     |-> req.due_date,
                                              return_date  |-> NULL])
                  /\ r.copies = [c \in DOMAIN copies |->
                                   IF c = req.book_copy_id
                                       THEN [copies[c] EXCEPT !.is_available = FALSE]
                                   ELSE copies[c]]
        /\ \E req \in AnyBorrowRequests :
              LET r == ExecCriarEmprestimo(users, copies, loans, now, req) IN
              r.status = 201 /\ loans' = r.loans /\ copies' = r.copies
        /\ users' = users
        /\ books' = books
      ]_vars

\* C12 witness: of two loans created, an open one has a borrower other than
\* its lender and its copy is flagged unavailable, while another copy is
\* still available.
C12_Witness ==
    \E i \in DOMAIN loans, c \in DOMAIN copies :
        /\ Len(loans) >= 2
        /\ loans[i].return_date = NULL
        /\ loans[i].borrower_id # loans[i].lender_id
        /\ ~copies[loans[i].book_copy_id].is_available
        /\ c # loans[i].book_copy_id
        /\ copies[c].is_available

\* C13: a successful return sets the loan's return_date to the date supplied,
\* or to now when none is supplied, sets the flag of the loan's copy, and
\* leaves the loan's other fields, every other loan and every other copy as
\* they were: a step that closes a loan is the commit of such a request.
C13_CloseLoanFrame ==
    [][\A b \in DOMAIN loans :
        (loans[b].return_date = NULL /\ loans'[b].return_date # NULL) =>
            /\ \A d \in AnyReturnDates :
                  LET r == ExecMarcarDevolucao(copies, loans, now, b, d) IN
                  /\ r.status = 200
                  /\ r.loans = [i \in DOMAIN loans |->
                                  IF i = b
                                      THEN [loans[i] EXCEPT
                                              !.return_date = IF d = NULL THEN now ELSE d]
                                  ELSE loans[i]]
                  /\ r.copies = [c \in DOMAIN copies |->
                                   IF c = loans[b].book_copy_id
                                       THEN [copies[c] EXCEPT !.is_available = TRUE]
                                   ELSE copies[c]]
            /\ \E d \in AnyReturnDates :
                  LET r == ExecMarcarDevolucao(copies, loans, now, b, d) IN
                  loans' = r.loans /\ copies' = r.copies
      ]_vars

\* C13 witness: a loan has been closed with a supplied return date (one before
\* its borrow_date, which now never is), its copy is available again, and the
\* copy of another, open loan is still flagged unavailable.
C13_Witness ==
    \E b \in DOMAIN loans, i \in DOMAIN loans :
        /\ loans[b].return_date # NULL
        /\ loans[b].return_date < loans[b].borrow_date
        /\ copies[loans[b].book_copy_id].is_available
        /\ loans[i].return_date = NULL
        /\ loans[i].book_copy_id # loans[b].book_copy_id
        /\ ~copies[loans[i].book_copy_id].is_available

\* something a loan request refers to does not exist
RefersToMissingRow(req) ==
    \/ req.book_copy_id \notin DOMAIN copies
    \/ req.borrower_id \notin DOMAIN users
    \/ req.lender_id \notin DOMAIN users

\* C14 as stated: a loan request whose copy, borrower or lender does not exist
\* is answered 404 whatever else it carries, and a return or a due-date update
\* of a loan id that does not exist is answered 404.
C14_NotFoundWhatever ==
    /\ \A req \in AnyBorrowRequests :
          RefersToMissingRow(req)
          => ExecCriarEmprestimo(users, copies, loans, now, req).status = 404
    /\ \A d \in AnyReturnDates :
          /\ ExecMarcarDevolucao(copies, loans, now, 0, d).status = 404
          /\ ExecAtualizarEmprestimo(copies, loans, now, 0, d).status = 404

\* C14: a loan request whose copy, borrower or lender does not exist is
\* rejected and changes nothing; it is answered 400 when its due date is not
\* after now or its copy exists and is flagged unavailable, and 404 otherwise.
\* A return or a due-date update of a loan id that does not exist is answered
\* 404.
C14_NotFound ==
    /\ \A req \in AnyBorrowRequests :
          RefersToMissingRow(req)
          => LET r == ExecCriarEmprestimo(users, copies, loans, now, req) IN
             /\ r.loans = loans
             /\ r.copies = copies
             /\ r.status =
                  IF \/ req.due_date <= now
                     \/ /\ req.book_copy_id \in DOMAIN copies
                        /\ ~copies[req.book_copy_id].is_available
                  THEN 400 ELSE 404
    /\ \A d \in AnyReturnDates :
          /\ ExecMarcarDevolucao(copies, loans, now, 0, d).status = 404
          /\ ExecAtualizarEmprestimo(copies, loans, now, 0, d).status = 404

\* C14 witness: with a copy on loan, a request with a future due date and a
\* missing lender is answered 400 for that copy, and 404 for a copy that does
\* not exist.
C14_Witness ==
    \E r1 \in AnyBorrowRequests, r2 \in AnyBorrowRequests :
        /\ loans # << >>
        /\ r1.lender_id \notin DOMAIN users /\ r1.due_date > now
        /\ r2.lender_id \notin DOMAIN users /\ r2.due_date > now
        /\ ExecCriarEmprestimo(users, copies, loans, now, r1).detail = "copy_unavailable"
        /\ ExecCriarEmprestimo(users, copies, loans, now, r2).detail = "copy_not_found"

\* the polymorphic identities of table user
UserTypes == {"user", "funcionario", "cliente"}

\* C15: a loan request is approved only with an employee as lender, so the
\* lender of every loan in the table is an employee; and whether a request is
\* approved does not depend on what kind of user its borrower is.
C15_LenderIsEmployee ==
    /\ \A req \in AnyBorrowRequests :
          ExecCriarEmprestimo(users, copies, loans, now, req).status = 201
          => /\ req.lender_id \in DOMAIN users
             /\ users[req.lender_id].user_type = "funcionario"
    /\ \A i \in DOMAIN loans :
          /\ loans[i].lender_id \in DOMAIN users
          /\ users[loans[i].lender_id].user_type = "funcionario"
    /\ \A req \in AnyBorrowRequests, t \in UserTypes :
          (req.borrower_id \in DOMAIN users /\ req.borrower_id # req.lender_id)
          => ExecCriarEmprestimo([users EXCEPT ![req.borrower_id].user_type = t],
                                 copies, loans, now, req).status
             = ExecCriarEmprestimo(users, copies, loans, now, req).status

\* C15 witness: one loan was made to a customer and another to an employee,
\* and a request with a customer as lender is refused for that reason.
C15_Witness ==
    /\ \E i \in DOMAIN loans, j \in DOMAIN loans :
          /\ users[loans[i].borrower_id].user_type = "cliente"
          /\ users[loans[j].borrower_id].user_type = "funcionario"
    /\ \E req \in AnyBorrowRequests :
          ExecCriarEmprestimo(users, copies, loans, now, req).detail = "lender_not_employee"

\* the checks of a loan request in the order of the claim: whether each
\* fails in the current state, and its reason
ChecksInOrder(req) ==
    << <<req.due_date <= now, "due_not_future">>,
       <<req.book_copy_id \notin DOMAIN copies, "copy_not_found">>,
       <<req.book_copy_id \in DOMAIN copies /\ ~copies[req.book_copy_id].is_available,
         "copy_unavailable">>,
       <<req.borrower_id \notin DOMAIN users, "borrower_not_found">>,
       <<req.lender_id \notin DOMAIN users, "lender_not_found">>,
       <<req.lender_id \in DOMAIN users /\ users[req.lender_id].user_type # "funcionario",
         "lender_not_employee">>,
       <<Cardinality(OpenLoansOfBorrower(loans, req.borrower_id)) >= 3, "limit_reached">>,
       <<\E i \in OpenLoansOfBorrower(loans, req.borrower_id) : loans[i].due_date < now,
         "borrower_overdue">> >>

\* the positions of the failing checks in a tuple of ChecksInOrder
FailingChecks(ch) == {k \in 1..8 : ch[k][1]}

\* C16: a loan request that fails one or more checks is answered with the
\* reason of the first failing check in the order: due date not future, copy
\* not found, copy unavailable, borrower not found, lender not found, lender
\* not an employee, loan limit reached, borrower overdue.
C16_FirstFailingCheck ==
    \A req \in AnyBorrowRequests :
        LET ch      == ChecksInOrder(req)
            failing == FailingChecks(ch)
            first   == CHOOSE k \in failing : \A j \in failing : k <= j
            r       == ExecCriarEmprestimo(users, copies, loans, now, req) IN
        failing # {} => r.detail = ch[first][2] /\ r.status \in {400, 404}

\* C16 witness: a request fails only the last two checks (3 open loans, one of
\* them overdue) and is refused for the limit, and another request fails four
\* checks or more.
C16_Witness ==
    /\ \E req \in AnyBorrowRequests :
          /\ FailingChecks(ChecksInOrder(req)) = {7, 8}
          /\ ExecCriarEmprestimo(users, copies, loans, now, req).detail = "limit_reached"
    /\ \E req \in AnyBorrowRequests :
          Cardinality(FailingChecks(ChecksInOrder(req))) >= 4

\* C18: a due-date update of an existing loan is answered 400 and changes
\* nothing when the loan is closed or the new due date is not after now;
\* otherwise it is answered 200, sets the loan's due_date to the new date and
\* changes nothing else.
C18_UpdateDueDate ==
    \A b \in DOMAIN loans, d \in Dates :
        LET r == ExecAtualizarEmprestimo(copies, loans, now, b, d) IN
        IF loans[b].return_date # NULL \/ d <= now
            THEN /\ r.status = 400
                 /\ r.loans = loans
                 /\ r.copies = copies
        ELSE /\ r.status = 200
             /\ r.loans = [i \in DOMAIN loans |->
                             IF i = b THEN [loans[i] EXCEPT !.due_date = d]
                             ELSE loans[i]]
             /\ r.copies = copies

\* C18 witness: the due date of an open loan has been moved (it is more than
\* one tick after its borrow_date, which no new loan's is), while another loan
\* is closed and refuses the update.
C18_Witness ==
    \E b \in DOMAIN loans, c \in DOMAIN loans :
        /\ loans[b].return_date = NULL
        /\ loans[b].due_date > loans[b].borrow_date + 1
        /\ loans[c].return_date # NULL
        /\ ExecAtualizarEmprestimo(copies, loans, now, c, now + 1).detail = "already_returned"

\* C19: a closed loan is never changed again (its return_date stays as it
\* is, and so does every other field) and no loan is ever removed.
C19_ClosedIsTerminal ==
    [][\A b \in DOMAIN loans :
          /\ b \in DOMAIN loans'
          /\ loans[b].return_date # NULL => loans'[b] = loans[b]
      ]_vars

\* C20: the flag of an existing copy changes only in a step that creates a
\* loan of that copy (to false) or closes a loan of that copy (to true).
C20_FlagChangedOnlyByLoans ==
    [][\A c \in (DOMAIN copies) \cap (DOMAIN copies') :
          copies'[c].is_available # copies[c].is_available =>
              IF copies'[c].is_available
                  THEN \E b \in DOMAIN loans :
                          /\ loans[b].book_copy_id = c
                          /\ loans[b].return_date = NULL
                          /\ loans'[b].return_date # NULL
              ELSE /\ Len(loans') = Len(loans) + 1
                   /\ loans'[Len(loans')].book_copy_id = c
      ]_vars

\* C21: a copy is deleted only in a state where it is flagged available and no
\* loan, open or closed, references it; a delete request for a copy in any
\* other state is answered with an error (400, or 500 from the foreign key of
\* borrow) and leaves the copy and every table as they were.
C21_DeleteOnlyFree ==
    /\ [](\A c \in DOMAIN copies :
            LET r == ExecDeletarCopia(copies, loans, c) IN
            IF copies[c].is_available /\ ~(\E i \in DOMAIN loans : loans[i].book_copy_id = c)
                THEN r.status = 204 /\ r.copies = Drop(copies, c) /\ r.loans = loans
            ELSE r.status \in {400, 500} /\ r.copies = copies /\ r.loans = loans)
    /\ [][\A c \in (DOMAIN copies) \ (DOMAIN copies') :
            /\ copies[c].is_available
            /\ ~(\E i \in DOMAIN loans : loans[i].book_copy_id = c)
            /\ copies' = Drop(copies, c)
            /\ loans' = loans
         ]_vars

\* C21 witness: the copy registered first has been deleted, and a further
\* delete request for it finds nothing.
C21_Witness ==
    /\ nextCopyId > 1
    /\ 1 \notin DOMAIN copies
    /\ ExecDeletarCopia(copies, loans, 1).status = 404

\* C23: in every state the overdue listing answers with exactly the loans
\* whose return_date is null and whose due_date is before now, each once and
\* with the fields of its row, and the overdue statistics count exactly those
\* loans and name the borrower of each; no closed loan and no loan with
\* due_date >= now is reported.
C23_OverdueExact ==
    LET overdue == {i \in DOMAIN loans : loans[i].return_date = NULL /\ loans[i].due_date < now}
        r == listar_emprestimos_atraso(books, copies, users, loans, now)
        e == estatisticas_atraso(users, loans, now) IN
    /\ r.status = 200
    /\ {r.body[k].id : k \in DOMAIN r.body} = overdue
    /\ Len(r.body) = Cardinality(overdue)
    /\ \A k \in DOMAIN r.body :
          /\ r.body[k].return_date = NULL
          /\ r.body[k].due_date < now
          /\ r.body[k].due_date = loans[r.body[k].id].due_date
          /\ r.body[k].borrower_id = loans[r.body[k].id].borrower_id
          /\ r.body[k].book_copy_id = loans[r.body[k].id].book_copy_id
    /\ e.total_emprestimos_atraso = Cardinality(overdue)
    /\ Len(e.usuarios_com_atraso) = Cardinality(overdue)
    /\ \A u \in DOMAIN users :
          Cardinality({k \in DOMAIN e.usuarios_com_atraso : e.usuarios_com_atraso[k].user_id = u})
            = Cardinality({i \in overdue : loans[i].borrower_id = u})

\* C23 witness: one open loan is past its due date and is the only loan
\* listed, while a closed loan past its due date is not.
C23_Witness ==
    /\ Len(listar_emprestimos_atraso(books, copies, users, loans, now).body) = 1
    /\ estatisticas_atraso(users, loans, now).total_emprestimos_atraso = 1
    /\ \E i \in DOMAIN loans : loans[i].return_date # NULL /\ loans[i].due_date < now

\* C24: in every state, whether reached by loan requests served one after the
\* other or together, no borrower has more than 3 open loans.
C24_AtMostThreeOpenLoans ==
    \A u \in DOMAIN users : Cardinality(OpenLoansOfBorrower(loans, u)) <= max_emprestimos

\* C25: of the returns of one loan that are in flight together, or together
\* with a loan request for the same copy, at most one is answered 200 and
\* return_date is written once: a return that commits with 200 finds its loan
\* still open; and no commit of a return sets the flag of a copy that an open
\* loan references.
C25_OneCloseWins ==
    [][\A w \in Workers :
          (/\ Commits(w)
           /\ sess[w].op = "marcar_devolucao"
           /\ sess'[w].status = 200)
          => /\ loans[sess[w].loan].return_date = NULL
             /\ \A c \in DOMAIN copies :
                   (~copies[c].is_available /\ copies'[c].is_available)
                   => OpenLoansOfCopy(loans', c) = {}
      ]_vars

\* C26: a return of an existing open loan is never refused: whatever the
\* return date sent, the loan's due date, the clock, the borrower, the lender
\* and the flag of the copy are, it is answered 200, closes the loan and
\* leaves the loan's copy flagged available; so from every state each open
\* loan can be closed in one request.
C26_CloseNeverRejected ==
    \A b \in DOMAIN loans, d \in AnyReturnDates :
        loans[b].return_date = NULL
        => LET r == ExecMarcarDevolucao(copies, loans, now, b, d) IN
           /\ r.status = 200
           /\ r.loans[b].return_date # NULL
           /\ loans[b].book_copy_id \in DOMAIN r.copies
           /\ r.copies[loans[b].book_copy_id].is_available

\* C26 witness: one loan has been closed, and another, open and past its due
\* date, is of a copy that is flagged available already; its return succeeds.
C26_Witness ==
    \E a \in DOMAIN loans, b \in DOMAIN loans :
        /\ loans[a].return_date # NULL
        /\ loans[b].return_date = NULL
        /\ loans[b].due_date < now
        /\ copies[loans[b].book_copy_id].is_available
        /\ ExecMarcarDevolucao(copies, loans, now, b, NULL).status = 200

\* every loan request that names borrower u is refused in the store given
Blocked(us, cs, ls, hoje, u) ==
    \A req \in [book_copy_id : (DOMAIN cs) \cup {0}, borrower_id : {u},
                lender_id : (DOMAIN us) \cup {0}, due_date : Dates] :
        Rejected(ExecCriarEmprestimo(us, cs, ls, hoje, req))

\* C27 as stated: a borrower with an open loan past its due date is refused
\* every loan request for as long as that loan is open, whatever other
\* requests are served meanwhile.
C27_BlockedUntilClosed ==
    [][\A i \in DOMAIN loans :
          (/\ loans[i].return_date = NULL
           /\ loans[i].due_date < now
           /\ i \in DOMAIN loans'
           /\ loans'[i].return_date = NULL)
          => Blocked(users', copies', loans', now', loans[i].borrower_id)
      ]_vars

\* C27: a borrower with an open loan past its due date is refused every loan
\* request for as long as that loan is open and keeps its due date; the due
\* date of an open loan changes only to a date after now, and no loan is
\* removed.
C27_BlockedUntilClosedOrRedated ==
    [][\A i \in DOMAIN loans :
          (loans[i].return_date = NULL /\ loans[i].due_date < now)
          => /\ i \in DOMAIN loans'
             /\ loans'[i].borrower_id = loans[i].borrower_id
             /\ loans'[i].due_date # loans[i].due_date
                    => loans'[i].due_date > now /\ loans'[i].return_date = NULL
             /\ (loans'[i].return_date = NULL /\ loans'[i].due_date = loans[i].due_date)
                    => Blocked(users', copies', loans', now', loans[i].borrower_id)
      ]_vars

\* C27 witness: a borrower has an open loan past its due date while another
\* loan has been given a later due date, a copy is available, and the
\* borrower's request for it is refused as overdue.
C27_Witness ==
    \E i \in DOMAIN loans, j \in DOMAIN loans, req \in AnyBorrowRequests :
        /\ loans[i].return_date = NULL
        /\ loans[i].due_date < now
        /\ loans[j].due_date > loans[j].borrow_date + 1
        /\ req.borrower_id = loans[i].borrower_id
        /\ ExecCriarEmprestimo(users, copies, loans, now, req).detail = "borrower_overdue"
        /\ Blocked(users, copies, loans, now, loans[i].borrower_id)

\* C28: in every state the due date of every loan is strictly later than its
\* borrow_date, after its creation and after any due-date update.
C28_DueAfterBorrow ==
    \A i \in DOMAIN loans : loans[i].due_date > loans[i].borrow_date

\* C29: a step that closes a loan gives it a return_date that is not earlier
\* than its borrow_date and not later than the time of the request, also when
\* the request supplies the return date.
C29_ReturnDateInRange ==
    [][\A b \in DOMAIN loans :
          (loans[b].return_date = NULL /\ loans'[b].return_date # NULL)
          => /\ loans'[b].return_date >= loans[b].borrow_date
             /\ loans'[b].return_date <= now
      ]_vars

C30_EmailsUniqueAndWellFormed ==
    /\ \A u \in DOMAIN users, v \in DOMAIN users :
          u # v => users[u].email # users[v].email
    /\ \A u \in DOMAIN users : validar_email(users[u].email)

====
